---- MODULE Spec2Model ----
(***************************************************************************)
(* Model of the sentiment-classification experiment scripts main.py (the   *)
(* 8-configuration comparison driver) and rf.py (the single random-forest  *)
(* variant).                                                               *)
(*                                                                         *)
(* Conventions.                                                            *)
(*  - A Python string that the code passes through lower() or upper() is a *)
(*    sequence of one-character strings, so that the case conversion is    *)
(*    computed character by character.  String literals that are only      *)
(*    concatenated into file names are TLA+ strings.                       *)
(*  - A file name is the tuple of the pieces it is concatenated from, the  *)
(*    extension last: f"rf_model_{model_suffix}.pkl" is                    *)
(*    <<"rf_model_", model_suffix, ".pkl">>.                               *)
(*  - A float produced by a division is the exact fraction                 *)
(*    [num |-> a, den |-> b] (not normalised); two fractions are compared  *)
(*    by cross-multiplication (RatEq).  Rounding is not modelled.          *)
(*  - The Matthews coefficient num/sqrt(den2) is [num |-> a, den2 |-> b].  *)
(*  - Wall-clock measurements are the opaque token Elapsed.                *)
(*  - The keys of the metrics dictionary are written as identifiers:       *)
(*    'Error Rate' is ErrorRate, 'F1 Score' is F1Score, 'Stop Words' is    *)
(*    StopWords, 'Training Time' is TrainingTime, 'Prediction Time' is     *)
(*    PredictionTime.                                                      *)
(***************************************************************************)
EXTENDS Integers, Sequences, FiniteSets, TLC

VARIABLES
    program,        \* which script runs: "main" (main.py) or "rf" (rf.py)
    pc,             \* position of the script
    y_val,          \* validation labels returned by load_data
    idx,            \* main.py: 1-based index of the loop over experiments
    model_suffix,   \* suffix returned with the trained model
    metrics,        \* value returned by the last evaluate_model
    results,        \* main.py: the list results of run_experiments
    returned,       \* main.py: value bound to results in main()
    files,          \* files written so far
    log,            \* operations completed so far, in order
    failure,        \* the operation that raised, or "none"
    y_true,         \* compute_metrics harness: first argument
    y_pred,         \* compute_metrics harness: second argument
    out,            \* compute_metrics harness: outcome of the call
    name,           \* dispatch harness: the type name passed in
    picked          \* dispatch harness: what each dispatcher selected

vars == <<program, pc, y_val, idx, model_suffix, metrics, results, returned,
          files, log, failure, y_true, y_pred, out, name, picked>>

driverVars == <<program, pc, y_val, idx, model_suffix, metrics, results,
                returned, files, log, failure>>

metricVars == <<y_true, y_pred, out>>

dispatchVars == <<name, picked>>

(***************************************************************************)
(* Bounds                                                                  *)
(***************************************************************************)
\* longest label sequence handed to compute_metrics in the metrics harness
MaxLen == 3

\* largest validation split load_data returns in the script runs
MaxVal == 2

(***************************************************************************)
(* Python strings                                                          *)
(***************************************************************************)
Letters == <<"b", "d", "f", "i", "m", "o", "r", "s", "t", "v", "w", "x">>

Capitals == <<"B", "D", "F", "I", "M", "O", "R", "S", "T", "V", "W", "X">>

\* str.lower() on one character
lower_char(c) ==
    IF \E k \in DOMAIN Capitals : Capitals[k] = c
    THEN Letters[CHOOSE k \in DOMAIN Capitals : Capitals[k] = c]
    ELSE c

\* str.upper() on one character
upper_char(c) ==
    IF \E k \in DOMAIN Letters : Letters[k] = c
    THEN Capitals[CHOOSE k \in DOMAIN Letters : Letters[k] = c]
    ELSE c

lower(s) == [k \in DOMAIN s |-> lower_char(s[k])]

upper(s) == [k \in DOMAIN s |-> upper_char(s[k])]

(***************************************************************************)
(* Exact fractions standing for floats                                     *)
(***************************************************************************)
Rat(a, b) == [num |-> a, den |-> b]

RatEq(p, q) == p.num * q.den = q.num * p.den

\* a / b with zero_division=0
div_or_zero(a, b) == IF b = 0 THEN Rat(0, 1) ELSE Rat(a, b)

(***************************************************************************)
(* sklearn.metrics as called by compute_metrics                            *)
(***************************************************************************)
Count(S) == Cardinality(S)

\* unique_labels: the sorted distinct values of both sequences
unique_labels(yt, yp) ==
    LET vals == {yt[k] : k \in DOMAIN yt} \cup {yp[k] : k \in DOMAIN yp}
    IN  CHOOSE s \in [1..Cardinality(vals) -> vals] :
            \A a, b \in DOMAIN s : a < b => s[a] < s[b]

\* confusion_matrix(y_true, y_pred) with labels=None: rows are true labels,
\* columns predicted labels, one row and column per label that occurs
confusion_matrix_transposed(yt, yp) ==
    LET labels == unique_labels(yt, yp)
        n == Len(labels)
    IN  [r \in 1..n |-> [c \in 1..n |->
            Count({k \in DOMAIN yt : yt[k] = labels[c] /\ yp[k] = labels[r]})]]

confusion_matrix(yt, yp) ==
    LET labels == unique_labels(yt, yp)
        n == Len(labels)
    IN  [r \in 1..n |-> [c \in 1..n |->
            Count({k \in DOMAIN yt : yt[k] = labels[r] /\ yp[k] = labels[c]})]]

\* ndarray.ravel(): row-major flattening
ravel(cm) ==
    LET n == Len(cm)
    IN  [k \in 1..(n * n) |-> cm[((k - 1) \div n) + 1][((k - 1) % n) + 1]]

\* accuracy_score: fraction of positions where the labels agree
accuracy_score_mismatches(yt, yp) ==
    Rat(Count({k \in DOMAIN yt : yt[k] # yp[k]}), Len(yt))

accuracy_score(yt, yp) ==
    Rat(Count({k \in DOMAIN yt : yt[k] = yp[k]}), Len(yt))

\* precision_score(..., zero_division=0), pos_label=1
precision_score_over_true(yt, yp) ==
    div_or_zero(Count({k \in DOMAIN yt : yt[k] = 1 /\ yp[k] = 1}),
                Count({k \in DOMAIN yt : yt[k] = 1}))

precision_score(yt, yp) ==
    div_or_zero(Count({k \in DOMAIN yt : yt[k] = 1 /\ yp[k] = 1}),
                Count({k \in DOMAIN yp : yp[k] = 1}))

\* recall_score(..., zero_division=0), pos_label=1
recall_score(yt, yp) ==
    div_or_zero(Count({k \in DOMAIN yt : yt[k] = 1 /\ yp[k] = 1}),
                Count({k \in DOMAIN yt : yt[k] = 1}))

\* f1_score(..., zero_division=0): 2 tp / (predicted positives + positives)
f1_score(yt, yp) ==
    div_or_zero(2 * Count({k \in DOMAIN yt : yt[k] = 1 /\ yp[k] = 1}),
                Count({k \in DOMAIN yp : yp[k] = 1})
                    + Count({k \in DOMAIN yt : yt[k] = 1}))

RECURSIVE SumTo(_, _)
SumTo(f, n) == IF n = 0 THEN 0 ELSE f[n] + SumTo(f, n - 1)

\* matthews_corrcoef: covariance form over the confusion matrix, 0.0 when
\* either variance is 0
matthews_corrcoef(yt, yp) ==
    LET C == confusion_matrix(yt, yp)
        n == Len(C)
        t_sum == [r \in 1..n |-> SumTo(C[r], n)]
        p_sum == [c \in 1..n |-> SumTo([r \in 1..n |-> C[r][c]], n)]
        n_correct == SumTo([r \in 1..n |-> C[r][r]], n)
        n_samples == SumTo(p_sum, n)
        cov_ytyp == n_correct * n_samples
                        - SumTo([r \in 1..n |-> t_sum[r] * p_sum[r]], n)
        cov_ypyp == n_samples * n_samples
                        - SumTo([r \in 1..n |-> p_sum[r] * p_sum[r]], n)
        cov_ytyt == n_samples * n_samples
                        - SumTo([r \in 1..n |-> t_sum[r] * t_sum[r]], n)
    IN  IF cov_ypyp * cov_ytyt = 0
        THEN [num |-> 0, den2 |-> 1]
        ELSE [num |-> cov_ytyp, den2 |-> cov_ytyt * cov_ypyp]

(***************************************************************************)
(* main.py: compute_metrics                                                *)
(***************************************************************************)
\* the outcome of a call: an exception, or a returned value
Raised(what) == [raised |-> TRUE, error |-> what]

Returned(v) == [raised |-> FALSE, value |-> v]

\* tn, fp, fn, tp = confusion_matrix(...).ravel() needs exactly 4 values;
\* otherwise the unpacking raises ValueError before the dict is built
compute_metrics(yt, yp) ==
    LET flat == ravel(confusion_matrix(yt, yp))
    IN  IF Len(flat) # 4
        THEN Raised("ValueError")
        ELSE LET acc == accuracy_score(yt, yp)
             IN  Returned([TP |-> flat[4],
                           TN |-> flat[1],
                           FP |-> flat[2],
                           FN |-> flat[3],
                           Accuracy |-> acc,
                           ErrorRate |-> Rat(acc.den - acc.num, acc.den),
                           Precision |-> precision_score(yt, yp),
                           Recall |-> recall_score(yt, yp),
                           F1Score |-> f1_score(yt, yp),
                           MCC |-> matthews_corrcoef(yt, yp)])

(***************************************************************************)
(* rf.py: create_text_pipeline, and the grid selection of main.py's        *)
(* train_model                                                             *)
(***************************************************************************)
tfidf == <<"t", "f", "i", "d", "f">>

bow == <<"b", "o", "w">>

svm == <<"s", "v", "m">>

rf == <<"r", "f">>

\* rf.py create_text_pipeline(vectorizer_type): <<pipeline, model_suffix>>
create_text_pipeline_case_sensitive(vectorizer_type) ==
    IF vectorizer_type = tfidf
    THEN <<[vectorizer |-> "TfidfVectorizer",
            classifier |-> "RandomForestClassifier"], "tfidf">>
    ELSE <<[vectorizer |-> "CountVectorizer",
            classifier |-> "RandomForestClassifier"], "bow">>

create_text_pipeline(vectorizer_type) ==
    IF lower(vectorizer_type) = tfidf
    THEN <<[vectorizer |-> "TfidfVectorizer",
            classifier |-> "RandomForestClassifier"], "tfidf">>
    ELSE <<[vectorizer |-> "CountVectorizer",
            classifier |-> "RandomForestClassifier"], "bow">>

\* main.py train_model: the parameter grid chosen for classifier_type
param_grid(classifier_type) ==
    IF lower(classifier_type) = svm
    THEN [classifier__C |-> <<Rat(1, 10), Rat(1, 1), Rat(10, 1)>>,
          classifier__max_iter |-> <<1000, 2000>>]
    ELSE [classifier__n_estimators |-> <<100, 200>>,
          classifier__max_depth |-> <<"None", 10, 20>>,
          classifier__min_samples_split |-> <<2, 5>>]

(***************************************************************************)
(* Harness for compute_metrics: every pair of equal-length binary label    *)
(* sequences up to MaxLen, and the 100-example all-positive scenario       *)
(***************************************************************************)
BinSeqs(n) == [1..n -> {0, 1}]

ScenarioTrue == [k \in 1..100 |-> IF k <= 55 THEN 1 ELSE 0]

ScenarioPred == [k \in 1..100 |-> 1]

DriverIdle ==
    /\ program = "none"
    /\ pc = "idle"
    /\ y_val = <<>>
    /\ idx = 0
    /\ model_suffix = ""
    /\ metrics = <<>>
    /\ results = <<>>
    /\ returned = <<>>
    /\ files = {}
    /\ log = <<>>
    /\ failure = "none"

MetricsIdle ==
    /\ y_true = <<>>
    /\ y_pred = <<>>
    /\ out = [state |-> "idle"]

DispatchIdle ==
    /\ name = <<>>
    /\ picked = [called |-> {}]

MetricsInit ==
    /\ \/ \E n \in 1..MaxLen : y_true \in BinSeqs(n) /\ y_pred \in BinSeqs(n)
       \/ y_true = ScenarioTrue /\ y_pred = ScenarioPred
    /\ out = [state |-> "ready"]
    /\ DriverIdle
    /\ DispatchIdle

\* one call compute_metrics(y_true, y_pred)
ComputeMetrics ==
    /\ out.state = "ready"
    /\ LET m == compute_metrics(y_true, y_pred)
       IN  out' = IF m.raised
                  THEN [state |-> "raised", error |-> m.error]
                  ELSE [state |-> "returned", value |-> m.value]
    /\ UNCHANGED <<y_true, y_pred>>
    /\ UNCHANGED driverVars
    /\ UNCHANGED dispatchVars

MetricsNext == ComputeMetrics

MetricsSpec == MetricsInit /\ [][MetricsNext]_vars

(***************************************************************************)
(* Harness for the name dispatch                                           *)
(***************************************************************************)
CaseVariants(w) ==
    {[k \in DOMAIN w |-> IF k \in U THEN upper_char(w[k]) ELSE w[k]] :
        U \in SUBSET DOMAIN w}

Names ==
    CaseVariants(tfidf) \cup CaseVariants(bow) \cup CaseVariants(svm)
        \cup CaseVariants(rf)
        \cup {<<>>, <<"t", "f", "i", "d">>, <<"t", "f", "i", "d", "f", " ">>,
              <<"t", "f", "-", "i", "d", "f">>, <<"s", "v", "m", "1">>,
              <<"x">>, <<"s", "v">>, <<"X", "V", "M">>}

DispatchInit ==
    /\ name \in Names
    /\ picked = [called |-> {}]
    /\ DriverIdle
    /\ MetricsIdle

\* rf.py: create_text_pipeline(name)
CreateTextPipeline ==
    /\ "create_text_pipeline" \notin picked.called
    /\ LET r == create_text_pipeline(name)
       IN  picked' = [k \in DOMAIN picked \cup {"pipeline", "model_suffix"} |->
                        CASE k = "called" ->
                                picked.called \cup {"create_text_pipeline"}
                          [] k = "pipeline" -> r[1]
                          [] k = "model_suffix" -> r[2]
                          [] OTHER -> picked[k]]
    /\ UNCHANGED name
    /\ UNCHANGED driverVars
    /\ UNCHANGED metricVars

\* main.py: the grid selection inside train_model(classifier_type=name)
SelectParamGrid ==
    /\ "train_model" \notin picked.called
    /\ picked' = [k \in DOMAIN picked \cup {"param_grid"} |->
                    CASE k = "called" -> picked.called \cup {"train_model"}
                      [] k = "param_grid" -> param_grid(name)
                      [] OTHER -> picked[k]]
    /\ UNCHANGED name
    /\ UNCHANGED driverVars
    /\ UNCHANGED metricVars

DispatchNext == CreateTextPipeline \/ SelectParamGrid

DispatchSpec == DispatchInit /\ [][DispatchNext]_vars

(***************************************************************************)
(* Properties of compute_metrics (checked under MetricsSpec)               *)
(***************************************************************************)
\* the four cells counted directly on the two argument sequences
TruePos == Count({k \in DOMAIN y_true : y_true[k] = 1 /\ y_pred[k] = 1})

TrueNeg == Count({k \in DOMAIN y_true : y_true[k] = 0 /\ y_pred[k] = 0})

FalsePos == Count({k \in DOMAIN y_true : y_true[k] = 0 /\ y_pred[k] = 1})

FalseNeg == Count({k \in DOMAIN y_true : y_true[k] = 1 /\ y_pred[k] = 0})

MetricKeys ==
    {"TP", "TN", "FP", "FN", "Accuracy", "ErrorRate", "Precision",
     "Recall", "F1Score", "MCC"}

\* C2: whenever compute_metrics returns, TP, TN, FP and FN are the counts of
\* (true 1, predicted 1), (true 0, predicted 0), (true 0, predicted 1) and
\* (true 1, predicted 0), and they add up to len(y_true).
C2_CountsPartitionExamples ==
    out.state = "returned" =>
        /\ out.value.TP = TruePos
        /\ out.value.TN = TrueNeg
        /\ out.value.FP = FalsePos
        /\ out.value.FN = FalseNeg
        /\ out.value.TP + out.value.TN + out.value.FP + out.value.FN
                = Len(y_true)

C2_Witness ==
    /\ out.state = "returned"
    /\ out.value.TP > 0
    /\ out.value.FP > 0
    /\ out.value.FN > 0

\* C3 (as stated): Precision is 0 when TP + FP = 0, Recall is 0 when
\* TP + FN = 0 and F1 Score is 0 when 2 TP + FP + FN = 0, each as a returned
\* value and never as an error.
C3_ZeroDenominatorReturnsZero ==
    out.state # "ready" =>
        /\ TruePos + FalsePos = 0 =>
                out.state = "returned" /\ out.value.Precision.num = 0
        /\ TruePos + FalseNeg = 0 =>
                out.state = "returned" /\ out.value.Recall.num = 0
        /\ 2 * TruePos + FalsePos + FalseNeg = 0 =>
                out.state = "returned" /\ out.value.F1Score.num = 0

\* C4 (as stated): for non-empty equal-length binary sequences, one class
\* absent or not, compute_metrics returns a complete metrics record.
C4_AlwaysReturnsRecord ==
    (out.state # "ready" /\ Len(y_true) > 0) =>
        /\ out.state = "returned"
        /\ DOMAIN out.value = MetricKeys

AllPositivePrediction == \A k \in DOMAIN y_pred : y_pred[k] = 1

Positives == Count({k \in DOMAIN y_true : y_true[k] = 1})

Negatives == Count({k \in DOMAIN y_true : y_true[k] = 0})

\* C5: with P > 0 positives, N > 0 negatives and an all-positive prediction,
\* compute_metrics returns TP = P, FN = 0, FP = N, TN = 0, Accuracy and
\* Precision P/(P+N), Recall 1 and MCC 0; for P = 55, N = 45 that is
\* TP=55, FN=0, FP=45, TN=0, accuracy 0.55, precision 0.55, recall 1.0.
C5_AllPositiveModel ==
    (out.state # "ready" /\ AllPositivePrediction
            /\ Positives > 0 /\ Negatives > 0) =>
        /\ out.state = "returned"
        /\ out.value.TP = Positives
        /\ out.value.FN = 0
        /\ out.value.FP = Negatives
        /\ out.value.TN = 0
        /\ RatEq(out.value.Accuracy, Rat(Positives, Positives + Negatives))
        /\ RatEq(out.value.Precision, Rat(Positives, Positives + Negatives))
        /\ RatEq(out.value.Recall, Rat(1, 1))
        /\ out.value.MCC.num = 0
        /\ (Positives = 55 /\ Negatives = 45) =>
                /\ out.value.TP = 55 /\ out.value.FN = 0
                /\ out.value.FP = 45 /\ out.value.TN = 0
                /\ RatEq(out.value.Accuracy, Rat(55, 100))
                /\ RatEq(out.value.Precision, Rat(55, 100))
                /\ RatEq(out.value.Recall, Rat(100, 100))

C5_Witness ==
    /\ out.state = "returned"
    /\ AllPositivePrediction
    /\ Positives = 55
    /\ Negatives = 45

\* C6: in every returned record, Accuracy is (TP+TN)/(TP+TN+FP+FN) and
\* Error Rate is (FP+FN)/(TP+TN+FP+FN), over the counts of the same record.
C6_AccuracyFromCounts ==
    out.state = "returned" =>
        LET m == out.value
            total == m.TP + m.TN + m.FP + m.FN
        IN  /\ total > 0
            /\ RatEq(m.Accuracy, Rat(m.TP + m.TN, total))
            /\ RatEq(m.ErrorRate, Rat(m.FP + m.FN, total))

C6_Witness ==
    /\ out.state = "returned"
    /\ out.value.TP + out.value.TN > 0
    /\ out.value.FP + out.value.FN > 0

(***************************************************************************)
(* Properties of the name dispatch (checked under DispatchSpec)            *)
(***************************************************************************)
\* s spells the lower-case word w, each letter in either case
SameIgnoringCase(s, w) ==
    /\ Len(s) = Len(w)
    /\ \A k \in DOMAIN w :
        \/ s[k] = w[k]
        \/ \E j \in DOMAIN Letters : Letters[j] = w[k] /\ Capitals[j] = s[k]

\* C7: "tfidf" in any letter case selects TF-IDF (suffix "tfidf") and every
\* other string bag-of-words (suffix "bow"); "svm" in any letter case
\* selects the SVM grid and every other string the random-forest grid; every
\* name gets a choice.
C7_SilentFallbackDispatch ==
    /\ "create_text_pipeline" \in picked.called =>
        IF SameIgnoringCase(name, tfidf)
        THEN /\ picked.model_suffix = "tfidf"
             /\ picked.pipeline.vectorizer = "TfidfVectorizer"
        ELSE /\ picked.model_suffix = "bow"
             /\ picked.pipeline.vectorizer = "CountVectorizer"
    /\ "train_model" \in picked.called =>
        IF SameIgnoringCase(name, svm)
        THEN DOMAIN picked.param_grid
                = {"classifier__C", "classifier__max_iter"}
        ELSE DOMAIN picked.param_grid
                = {"classifier__n_estimators", "classifier__max_depth",
                   "classifier__min_samples_split"}

C7_Witness ==
    /\ picked.called = {"create_text_pipeline", "train_model"}
    /\ name = <<"T", "f", "I", "d", "F">>
    /\ picked.model_suffix = "tfidf"

(***************************************************************************)
(* main.py: the experiment driver                                          *)
(***************************************************************************)
\* a wall-clock measurement (time() - start_time)
Elapsed == "elapsed"

\* the list experiments of run_experiments
experiments_with_repeated_row ==
    <<[classifier |-> svm, vectorizer |-> tfidf, stop_words |-> TRUE],
      [classifier |-> svm, vectorizer |-> tfidf, stop_words |-> FALSE],
      [classifier |-> svm, vectorizer |-> bow, stop_words |-> TRUE],
      [classifier |-> svm, vectorizer |-> bow, stop_words |-> FALSE],
      [classifier |-> rf, vectorizer |-> tfidf, stop_words |-> TRUE],
      [classifier |-> rf, vectorizer |-> tfidf, stop_words |-> FALSE],
      [classifier |-> rf, vectorizer |-> bow, stop_words |-> TRUE],
      [classifier |-> rf, vectorizer |-> bow, stop_words |-> TRUE]>>

experiments ==
    <<[classifier |-> svm, vectorizer |-> tfidf, stop_words |-> TRUE],
      [classifier |-> svm, vectorizer |-> tfidf, stop_words |-> FALSE],
      [classifier |-> svm, vectorizer |-> bow, stop_words |-> TRUE],
      [classifier |-> svm, vectorizer |-> bow, stop_words |-> FALSE],
      [classifier |-> rf, vectorizer |-> tfidf, stop_words |-> TRUE],
      [classifier |-> rf, vectorizer |-> tfidf, stop_words |-> FALSE],
      [classifier |-> rf, vectorizer |-> bow, stop_words |-> TRUE],
      [classifier |-> rf, vectorizer |-> bow, stop_words |-> FALSE]>>

\* preproc.create_text_pipeline(classifier_type, vectorizer_type,
\* use_stop_words): <<pipeline, model_suffix>>, the suffix naming the
\* configuration; unrecognised names fall back to random forest and to
\* bag-of-words
preproc_create_text_pipeline(classifier_type, vectorizer_type, use_stop_words) ==
    LET c == IF lower(classifier_type) = svm THEN "svm" ELSE "rf"
        v == IF lower(vectorizer_type) = tfidf THEN "tfidf" ELSE "bow"
        w == IF use_stop_words THEN "nostop" ELSE "stop"
    IN  <<[vectorizer |-> v, classifier |-> c, stop_words |-> use_stop_words],
          c \o "_" \o v \o "_" \o w>>

\* main.py train_model: <<best_model, model_suffix, train_time>>; the fitted
\* estimator is opaque
train_model(classifier_type, vectorizer_type, use_stop_words) ==
    LET made == preproc_create_text_pipeline(classifier_type, vectorizer_type,
                                             use_stop_words)
    IN  <<[pipeline |-> made[1], param_grid |-> param_grid(classifier_type)],
          made[2], Elapsed>>

\* the dict literal of run_experiments: the labels, then **metrics (a key of
\* metrics would replace a label of the same name)
result_record(exp, train_time, m) ==
    LET labels == [Classifier |-> upper(exp.classifier),
                   Vectorizer |-> upper(exp.vectorizer),
                   StopWords |-> IF exp.stop_words THEN "No" ELSE "Yes",
                   TrainingTime |-> train_time]
    IN  m @@ labels

\* results.append(result)
append_result_at_front(rs, r) == <<r>> \o rs

append_result(rs, r) == Append(rs, r)

\* an exception nobody catches: it leaves run_experiments and main, and the
\* process ends with a trace
Raise_and_go_on(op) ==
    /\ failure' = op
    /\ IF program = "main" /\ op # "load_data"
       THEN /\ idx' = idx + 1
            /\ pc' = IF idx = Len(experiments) THEN "return" ELSE "train_model"
       ELSE /\ idx' = idx
            /\ pc' = "aborted"
    /\ UNCHANGED <<program, y_val, model_suffix, metrics, results, returned,
                   files, log>>

Raise(op) ==
    /\ failure' = op
    /\ pc' = "aborted"
    /\ UNCHANGED <<program, y_val, idx, model_suffix, metrics, results,
                   returned, files, log>>

\* model.predict(X_val): the fitted estimator is opaque; the label vectors
\* considered are those of a model that is right on every example and of
\* the two models that answer one class for every example
model_predict(yv) ==
    {yv, [k \in DOMAIN yv |-> 1], [k \in DOMAIN yv |-> 0]}

\* the validation labels a run can load
ValSplits == UNION {BinSeqs(n) : n \in 1..MaxVal}

Init ==
    /\ program \in {"main", "rf"}
    /\ pc = "load_data"
    /\ y_val = <<>>
    /\ idx = 0
    /\ model_suffix = ""
    /\ metrics = <<>>
    /\ results = <<>>
    /\ returned = [bound |-> FALSE]
    /\ files = {}
    /\ log = <<>>
    /\ failure = "none"
    /\ MetricsIdle
    /\ DispatchIdle

\* load_data() returns the two splits; the loop (main.py) or the training
\* (rf.py) comes next.  rf.py defines load_data; main.py imports the
\* function of the same name from preproc.
LoadData ==
    /\ pc = "load_data"
    /\ y_val' \in ValSplits
    /\ idx' = IF program = "main" THEN 1 ELSE 0
    /\ log' = Append(log, <<"load_data", 0>>)
    /\ pc' = "train_model"
    /\ UNCHANGED <<program, model_suffix, metrics, results, returned, files,
                   failure>>
    /\ UNCHANGED metricVars
    /\ UNCHANGED dispatchVars

\* the remote dataset cannot be read
LoadDataFails ==
    /\ pc = "load_data"
    /\ Raise("load_data")
    /\ UNCHANGED metricVars
    /\ UNCHANGED dispatchVars

\* main.py: train_model(...) for experiments[idx] returns
TrainModel ==
    /\ program = "main"
    /\ pc = "train_model"
    /\ LET exp == experiments[idx]
           r == train_model(exp.classifier, exp.vectorizer, exp.stop_words)
       IN  model_suffix' = r[2]
    /\ log' = Append(log, <<"train_model", idx>>)
    /\ pc' = "evaluate_model"
    /\ UNCHANGED <<program, y_val, idx, metrics, results, returned, files,
                   failure>>
    /\ UNCHANGED metricVars
    /\ UNCHANGED dispatchVars

\* grid_search.fit raises
TrainModelFails ==
    /\ pc = "train_model"
    /\ Raise("train_model")
    /\ UNCHANGED metricVars
    /\ UNCHANGED dispatchVars

\* main.py: evaluate_model(...) predicts, computes the metrics and saves the
\* heatmap; a ValueError of compute_metrics leaves before the heatmap
EvaluateModel ==
    /\ program = "main"
    /\ pc = "evaluate_model"
    /\ \E y_val_pred \in model_predict(y_val) :
        LET m == compute_metrics(y_val, y_val_pred)
        IN  IF m.raised
            THEN Raise("evaluate_model")
            ELSE /\ metrics' = [PredictionTime |-> Elapsed] @@ m.value
                 /\ files' = files \cup
                        {<<"confusion_matrix_", model_suffix, ".png">>}
                 /\ log' = Append(log, <<"evaluate_model", idx>>)
                 /\ pc' = "append"
                 /\ UNCHANGED <<program, y_val, idx, model_suffix, results,
                                returned, failure>>
    /\ UNCHANGED metricVars
    /\ UNCHANGED dispatchVars

\* main.py: the record is built and appended; the loop moves on
AppendResult ==
    /\ program = "main"
    /\ pc = "append"
    /\ results' = append_result(results,
                        result_record(experiments[idx], Elapsed, metrics))
    /\ log' = Append(log, <<"append", idx>>)
    /\ idx' = idx + 1
    /\ pc' = IF idx = Len(experiments) THEN "return" ELSE "train_model"
    /\ UNCHANGED <<program, y_val, model_suffix, metrics, returned, files,
                   failure>>
    /\ UNCHANGED metricVars
    /\ UNCHANGED dispatchVars

\* main.py: return results; main() binds it
ReturnResults ==
    /\ program = "main"
    /\ pc = "return"
    /\ returned' = [bound |-> TRUE, value |-> results]
    /\ pc' = "display_results"
    /\ UNCHANGED <<program, y_val, idx, model_suffix, metrics, results, files,
                   log, failure>>
    /\ UNCHANGED metricVars
    /\ UNCHANGED dispatchVars

\* main.py: display_results(results) writes the two tables and the chart
DisplayResults ==
    /\ program = "main"
    /\ pc = "display_results"
    /\ files' = files \cup {<<"confusion_matrix_results", ".csv">>,
                            <<"metrics_results", ".csv">>,
                            <<"performance_metrics_comparison", ".png">>}
    /\ log' = Append(log, <<"display_results", 0>>)
    /\ pc' = "completed"
    /\ UNCHANGED <<program, y_val, idx, model_suffix, metrics, results,
                   returned, failure>>
    /\ UNCHANGED metricVars
    /\ UNCHANGED dispatchVars

\* main.py: print("Experiment completed successfully.")
ExperimentCompleted ==
    /\ program = "main"
    /\ pc = "completed"
    /\ log' = Append(log, <<"Experiment completed successfully.", 0>>)
    /\ pc' = "done"
    /\ UNCHANGED <<program, y_val, idx, model_suffix, metrics, results,
                   returned, files, failure>>
    /\ UNCHANGED metricVars
    /\ UNCHANGED dispatchVars

(***************************************************************************)
(* rf.py: the single-model variant                                         *)
(***************************************************************************)
\* vectorizer_type = "bow" in main()
rf_vectorizer_type == bow

\* rf.py train_model: <<best_model, model_suffix>>
rf_train_model(vectorizer_type) ==
    LET made == create_text_pipeline(vectorizer_type)
    IN  <<[pipeline |-> made[1]], made[2]>>

\* rf.py evaluate_model: <<val_accuracy, error_rate, mcc>>
rf_evaluate_model(yv, y_val_pred) ==
    LET val_accuracy == accuracy_score(yv, y_val_pred)
    IN  <<val_accuracy,
          Rat(val_accuracy.den - val_accuracy.num, val_accuracy.den),
          matthews_corrcoef(yv, y_val_pred)>>

\* model_filename = f"rf_model_{model_suffix}.pkl"
model_filename_default(suffix) == <<"rf_model", ".pkl">>

model_filename(suffix) == <<"rf_model_", suffix, ".pkl">>

\* save_model: joblib.dump(model, model_name)
save_model(fs, model_name) == fs \cup {model_name}

\* rf.py: train_model(...) returns, having saved the feature-importance plot
RfTrainModel ==
    /\ program = "rf"
    /\ pc = "train_model"
    /\ model_suffix' = rf_train_model(rf_vectorizer_type)[2]
    /\ files' = files \cup {<<"feature_importances_rf", ".png">>}
    /\ log' = Append(log, <<"train_model", 0>>)
    /\ pc' = "evaluate_model"
    /\ UNCHANGED <<program, y_val, idx, metrics, results, returned, failure>>
    /\ UNCHANGED metricVars
    /\ UNCHANGED dispatchVars

\* rf.py: evaluate_model(...) returns, having saved the heatmap
RfEvaluateModel ==
    /\ program = "rf"
    /\ pc = "evaluate_model"
    /\ \E y_val_pred \in model_predict(y_val) :
            metrics' = rf_evaluate_model(y_val, y_val_pred)
    /\ files' = files \cup {<<"confusion_matrix_rf", ".png">>}
    /\ log' = Append(log, <<"evaluate_model", 0>>)
    /\ pc' = "save_model"
    /\ UNCHANGED <<program, y_val, idx, model_suffix, results, returned,
                   failure>>
    /\ UNCHANGED metricVars
    /\ UNCHANGED dispatchVars

\* rf.py: save_model(best_model, model_filename)
RfSaveModel ==
    /\ program = "rf"
    /\ pc = "save_model"
    /\ files' = save_model(files, model_filename(model_suffix))
    /\ log' = Append(log, <<"save_model", 0>>)
    /\ pc' = "final_report"
    /\ UNCHANGED <<program, y_val, idx, model_suffix, metrics, results,
                   returned, failure>>
    /\ UNCHANGED metricVars
    /\ UNCHANGED dispatchVars

\* rf.py: the final report is printed
RfFinalReport ==
    /\ program = "rf"
    /\ pc = "final_report"
    /\ log' = Append(log, <<"Final Report", 0>>)
    /\ pc' = "done"
    /\ UNCHANGED <<program, y_val, idx, model_suffix, metrics, results,
                   returned, files, failure>>
    /\ UNCHANGED metricVars
    /\ UNCHANGED dispatchVars

Next ==
    \/ LoadData
    \/ LoadDataFails
    \/ TrainModel
    \/ TrainModelFails
    \/ EvaluateModel
    \/ AppendResult
    \/ ReturnResults
    \/ DisplayResults
    \/ ExperimentCompleted
    \/ RfTrainModel
    \/ RfEvaluateModel
    \/ RfSaveModel
    \/ RfFinalReport

Spec == Init /\ [][Next]_vars

(***************************************************************************)
(* Properties of the script runs (checked under Spec)                      *)
(***************************************************************************)
Triple(r) == <<r.Classifier, r.Vectorizer, r.StopWords>>

AllTriples ==
    {<<"S", "V", "M">>, <<"R", "F">>}
        \X {<<"T", "F", "I", "D", "F">>, <<"B", "O", "W">>}
        \X {"No", "Yes"}

\* C1: when run_experiments returns, it returns exactly 8 records whose
\* (Classifier, Vectorizer, Stop Words) triples are pairwise distinct and
\* cover {SVM, RF} x {TFIDF, BOW} x {No, Yes}.
C1_EightDistinctRecords ==
    returned.bound =>
        /\ Len(returned.value) = 8
        /\ {Triple(returned.value[k]) : k \in DOMAIN returned.value}
                = AllTriples
        /\ \A j, k \in DOMAIN returned.value :
                j # k => Triple(returned.value[j]) # Triple(returned.value[k])

C1_Witness ==
    /\ program = "main"
    /\ returned.bound
    /\ pc = "done"

IsModelFile(f) == f[Len(f)] = ".pkl"

ModelFiles == {f \in files : IsModelFile(f)}

\* C8 (as stated): a complete run of main.py leaves one serialized model
\* file per configuration, and a complete run of rf.py exactly one.
C8_ModelFilePerConfiguration ==
    pc = "done" =>
        /\ program = "main" => Cardinality(ModelFiles) = Len(experiments)
        /\ program = "rf" => Cardinality(ModelFiles) = 1

\* C8 (amended): main.py never writes a serialized model file; rf.py writes
\* exactly one, rf_model_<suffix>.pkl with the suffix of its bag-of-words
\* pipeline, and only after training and evaluation have both completed.
C8_OnlySingleModelVariantSaves ==
    /\ program = "main" => ModelFiles = {}
    /\ program = "rf" =>
        /\ ModelFiles \subseteq {<<"rf_model_", "bow", ".pkl">>}
        /\ ModelFiles # {} =>
                \E a, b \in DOMAIN log :
                    /\ a < b
                    /\ log[a][1] = "train_model"
                    /\ log[b][1] = "evaluate_model"
        /\ pc = "done" => Cardinality(ModelFiles) = 1

C8_Witness ==
    /\ program = "rf"
    /\ pc = "done"
    /\ <<"rf_model_", "bow", ".pkl">> \in files

\* the operation and configuration expected at position j of the log of
\* main.py, position 1 being load_data
ExpectedEvent(j) ==
    <<(<<"train_model", "evaluate_model", "append">>)[((j - 2) % 3) + 1],
      ((j - 2) \div 3) + 1>>

Appended == Cardinality({j \in DOMAIN log : log[j][1] = "append"})

SequentialPrefix ==
    program = "main" =>
        /\ \A j \in DOMAIN log :
                (j >= 2 /\ j <= 1 + 3 * Len(experiments)) =>
                    log[j] = ExpectedEvent(j)
        /\ Len(results) = Appended
        /\ Len(results) <= Len(experiments)
        /\ \A k \in DOMAIN results :
                /\ results[k].Classifier = upper(experiments[k].classifier)
                /\ results[k].Vectorizer = upper(experiments[k].vectorizer)
                /\ results[k].StopWords
                        = IF experiments[k].stop_words THEN "No" ELSE "Yes"
        /\ pc = "train_model" => Len(results) = idx - 1
        /\ pc = "evaluate_model" => log[Len(log)] = <<"train_model", idx>>
        /\ pc = "append" => log[Len(log)] = <<"evaluate_model", idx>>

RecordsKept ==
    \A k \in DOMAIN results : k \in DOMAIN results' /\ results'[k] = results[k]

\* C9: configurations run one at a time in list order (train, evaluate,
\* append, then the next one); results is always the records of a prefix of
\* the configuration list, record k carrying the labels of configuration k;
\* an appended record is never changed or removed.
C9_OneAtATimeInListOrder == [](SequentialPrefix) /\ [][RecordsKept]_vars

C9_Witness ==
    /\ program = "main"
    /\ pc = "evaluate_model"
    /\ idx = 3
    /\ Len(results) = 2

Aborted ==
    /\ pc = "aborted"
    /\ ~returned.bound
    /\ \A j \in DOMAIN log :
            log[j][1] \notin {"display_results",
                              "Experiment completed successfully."}
    /\ files \cap {<<"confusion_matrix_results", ".csv">>,
                   <<"metrics_results", ".csv">>,
                   <<"performance_metrics_comparison", ".png">>} = {}

NothingAfterFailure ==
    failure # "none" =>
        /\ log' = log
        /\ files' = files
        /\ results' = results
        /\ returned' = returned
        /\ pc' = pc

\* C10: once load_data, a training or an evaluation has failed, the run is
\* aborted: nothing is trained, evaluated or written any more, main() gets
\* no results, display_results is not called, neither CSV file nor the chart
\* exists, and the run never completes.
C10_FailureAbortsBatch ==
    []((program = "main" /\ failure # "none") => Aborted)
        /\ [][program = "main" => NothingAfterFailure]_vars

C10_Witness ==
    /\ program = "main"
    /\ failure = "evaluate_model"
    /\ pc = "aborted"
    /\ Len(results) >= 1

====
